---- MODULE Spec2Model ----
(***************************************************************************)
(* Model of the BotFactory bot runtime (services/telegram_service.py,      *)
(* bot_monitor.py, the bot routes of routes.py), of the conversation       *)
(* tracking of the dispatch path and of the lifecycle notification sweep   *)
(* (services/notification_service.py).                                     *)
(*                                                                         *)
(* Threads of the web process call start_bot / stop_bot of the one         *)
(* module-level TelegramService of routes.py; no lock guards its           *)
(* dictionaries, so every statement that touches them is a step of its     *)
(* own here.  bot_monitor.monitor_bots builds a new TelegramService on     *)
(* every cycle.  An execution context is the daemon thread run_bot with    *)
(* its private event loop.                                                 *)
(***************************************************************************)
EXTENDS Integers, FiniteSets, Sequences, TLC

\* ---------------------------------------------------------------- bounds
MaxCtx == 2

MaxCalls == 3

MaxMsgs == 2

MaxClock == 2

MaxSweeps == 2
\* send requests for the broadcast
MaxSends == 2
\* language markers counted in one message
MaxMarkers == 2
MaxLen == 5

StartNow == 22

MaxNow == 24

\* timedelta(days=3), timedelta(days=1), timedelta(hours=1), in hours
ThreeDays == 72

OneDay == 24

OneHour == 1

Bots == {1, 2}
Threads == {"r1", "r2"}
CtxIds == 1..MaxCtx
Handlers == {"h1", "h2"}
Participants == {7, 8}

\* a group chat a participant can write to the bot from; the private chat of
\* a participant has the participant's own identifier
GroupChat == 9

ChatsOf(u) == {u, GroupChat}
Tenants == {1, 2}
Sweepers == {"s1", "s2"}
\* models.py:8-12, SubscriptionType
Tiers == {"FREE", "STARTER", "BASIC", "PREMIUM"}
Kinds == <<"TRIAL_EXPIRING_3_DAYS", "TRIAL_EXPIRED", "SUBSCRIPTION_EXPIRING_1_DAY", "SUBSCRIPTION_EXPIRED">>
\* end dates a subscription row may hold: none (-1), or an hour
EndDates == {-1, 23, 46, 96}

VARIABLES
    botStatus,    \* Bot.status of each bot row ("DELETED": the row is gone)
    botToken,     \* Bot.telegram_token as the gateway sees it
    active_bots,  \* TelegramService.active_bots of routes.telegram_service
    bot_threads,  \* TelegramService.bot_threads of routes.telegram_service
    ctx,          \* the Application objects and their run_bot threads
    th,           \* the request threads: position in the handler, locals
    monPc,        \* bot_monitor.monitor_loop: "sleep" or "scan"
    monTodo,      \* bots of the current monitor cycle still to examine
    calls,        \* number of requests the web process has accepted
    convs,        \* the committed rows of the conversations table
    clock,        \* datetime.utcnow() as the message handlers read it
    hd,           \* the polling threads that handle inbound messages
    msgs,         \* number of inbound messages accepted
    now,          \* datetime.utcnow() in hours, as the sweeps read it
    subType,      \* Subscription.subscription_type of each tenant
    endDate,      \* Subscription.end_date of each tenant, in hours
    subActive,    \* Subscription.is_active of each tenant
    botIsActive,  \* Bot.is_active of each bot
    templates,    \* notification types that have an active template row
    notes,        \* the committed rows of the user_notifications table
    sw,           \* the running sweeps of check_and_send_notifications
    sweeps,       \* number of sweeps started
    userActive,   \* User.active of each tenant
    language,     \* User.language of each tenant
    cn,           \* the cancel request in progress and the result of the last one
    bc,           \* the row of the admin_broadcasts table
    deliveries,   \* the committed rows of the broadcast_deliveries table
    attempts,     \* sendMessage calls the gateway got for the broadcast, per (bot, chat)
    bs,           \* the running send_broadcast calls
    sends,        \* number of send requests accepted
    preview,      \* what preview_broadcast last showed
    aiAvailable,  \* AIService.api_available
    langDb,       \* TelegramUser.language of each participant ("none": no row)
    user_languages, \* TelegramService.user_languages, the cache
    lr,           \* the last language resolution: its inputs and its result
    botTotal,     \* Bot.total_messages of each bot
    markup,       \* the message_html the admin submitted last
    cleaned       \* what sanitize_html made of it

rtVars == <<botStatus, botToken, active_bots, bot_threads, ctx, th, monPc, monTodo, calls>>

convVars == <<convs, clock, hd, msgs>>

ntVars == <<now, subType, endDate, subActive, botIsActive, templates, notes, sw, sweeps>>

bcVars == <<userActive, language, cn, bc, deliveries, attempts, bs, sends, preview>>

dpVars == <<aiAvailable, langDb, user_languages, lr, botTotal>>

szVars == <<markup, cleaned>>

vars == <<rtVars, convVars, ntVars, bcVars, dpVars, szVars>>

\* what the runtime manager, the dispatch path and the sweep leave alone
notRt == <<convVars, ntVars, bcVars, dpVars, szVars>>

notConv == <<rtVars, ntVars, bcVars, dpVars, szVars>>

notNt == <<rtVars, convVars, bcVars, dpVars, szVars>>

notBc == <<rtVars, convVars, ntVars, dpVars, szVars>>

notDp == <<rtVars, ntVars, bcVars, szVars>>

\* ------------------------------------------------------------- helpers
NoCtx == [bot |-> 0, phase |-> "none", svc |-> "none"]

IdleThread == [pc |-> "idle", op |-> "none", bot |-> 0, tok |-> "none",
               call |-> "none", inStart |-> FALSE, after |-> "none",
               app |-> 0, found |-> FALSE, foundThr |-> FALSE, res |-> "none"]

FreeCtx == {c \in CtxIds : ctx[c].phase = "none"}

NewCtx == CHOOSE c \in FreeCtx : \A d \in FreeCtx : c <= d

\* a context that polls the gateway or is on its way to polling
Running(c) == ctx[c].phase \in {"init", "polling"}

\* a context whose thread has not ended (loop.run_forever has not returned)
Live(c) == ctx[c].phase \in {"init", "polling", "idle"}

RunningOf(b) == {c \in CtxIds : ctx[c].bot = b /\ Running(c)}

LiveOf(b) == {c \in CtxIds : ctx[c].bot = b /\ Live(c)}

\* TelegramService.is_bot_active / get_active_bots
is_bot_active(b) == active_bots[b] # 0

get_active_bots == {b \in Bots : active_bots[b] # 0}

\* start_bot calls that still have to build their Application
PendingBuilds == {t \in Threads : th[t].inStart /\ th[t].pc \in {"t_check", "t_stopapp", "t_del", "t_chkthr", "t_delthr", "s_build"}}

CanAllocate == Cardinality(FreeCtx) > Cardinality(PendingBuilds)

RtInit ==
    /\ botStatus = [b \in Bots |-> "INACTIVE"]
    /\ botToken = [b \in Bots |-> "none"]
    /\ active_bots = [b \in Bots |-> 0]
    /\ bot_threads = [b \in Bots |-> 0]
    /\ ctx = [c \in CtxIds |-> NoCtx]
    /\ th = [t \in Threads |-> IdleThread]
    /\ monPc = "sleep"
    /\ monTodo = {}
    /\ calls = 0

IdleHandler == [pc |-> "idle", bot |-> 0, user |-> 0, chat |-> 0, row |-> 0, t |-> 0, out |-> "none", n |-> 0]

\* no message is being handled, the conversations table is empty
ConvInit ==
    /\ convs = <<>>
    /\ clock = 0
    /\ hd = [h \in Handlers |-> IdleHandler]
    /\ msgs = 0

IdleSweep == [pc |-> "idle", current_time |-> 0, kind |-> 0, todo |-> {}, user |-> 0, created_at |-> 0, chats |-> {}]

\* models.py:66-77, 128: a new tenant has a FREE subscription that is active,
\* without end date (-1), and bots are created with is_active = True
NtInit ==
    /\ now = 0
    /\ subType = [u \in Tenants |-> "FREE"]
    /\ endDate = [u \in Tenants |-> -1]
    /\ subActive = [u \in Tenants |-> TRUE]
    /\ botIsActive = [b \in Bots |-> TRUE]
    /\ templates = {}
    /\ notes = <<>>
    /\ sw = [x \in Sweepers |-> IdleSweep]
    /\ sweeps = 0

Senders == {"m", "c"}

\* models.py:214-223, the column defaults of AdminBroadcast; exists is FALSE
\* while no broadcast was created
NoBroadcast ==
    [exists |-> FALSE, target_subscription |-> "FREE", allow_basic |-> FALSE, allow_premium |-> FALSE,
     is_scheduled |-> FALSE, scheduled_at |-> -1, is_sent |-> FALSE, sent_at |-> -1,
     total_bots |-> 0, successful_sends |-> 0, failed_sends |-> 0]

\* no cancel request was made
NoCancel == [pc |-> "idle", res |-> "none"]

IdleSender ==
    [pc |-> "idle", targets |-> <<>>, i |-> 0, chats |-> {}, success_count |-> 0,
     successful_sends |-> 0, failed_sends |-> 0, pending |-> <<>>, res |-> "none", footer |-> "none"]

\* no broadcast was created, nothing was sent; users are created active
\* (models.py:38)
NoPreview == [shown |-> FALSE, bots |-> <<>>]

BcInit ==
    /\ userActive = [u \in Tenants |-> TRUE]
    /\ language = [u \in Tenants |-> "en"]
    /\ cn = NoCancel
    /\ bc = NoBroadcast
    /\ deliveries = <<>>
    /\ attempts = [p \in Bots \X Participants |-> 0]
    /\ bs = [s \in Senders |-> IdleSender]
    /\ sends = 0
    /\ preview = NoPreview

\* the language codes of the selection keyboard, telegram_service.py:360-364
Langs == {"uz", "ru", "en"}

NoResolution == [kind |-> "none", user |-> 0, uz |-> 0, ru |-> 0, cyr |-> 0, lang |-> "none", instr |-> "none"]

\* GEMINI_API_KEY is set (ai_service.py:11-15), no participant has chosen a
\* language, the cache is empty (telegram_service.py:19), the counters are 0
\* nothing was submitted yet
NotSanitized == [done |-> FALSE, raised |-> FALSE, out |-> <<>>]

SzInit ==
    /\ markup = <<>>
    /\ cleaned = NotSanitized

DpInit ==
    /\ aiAvailable = TRUE
    /\ langDb = [u \in Participants |-> "none"]
    /\ user_languages = [u \in Participants |-> "none"]
    /\ lr = NoResolution
    /\ botTotal = [b \in Bots |-> 0]
    /\ SzInit

Init == RtInit /\ ConvInit /\ NtInit /\ BcInit /\ DpInit

\* ------------------------------------------------ TelegramService.stop_bot
\* control returns from stop_bot with result r: start_bot ignores the result
\* (telegram_service.py:63), a route goes on to its commit / delete
AfterStop(rec, r) ==
    IF rec.inStart THEN [rec EXCEPT !.pc = "s_build"]
    ELSE [rec EXCEPT !.res = r, !.pc = rec.after]

\* what stop_app (updater.stop / stop / shutdown, run on the CALLER's event
\* loop) does to the application of context c.  An application that is not
\* polling yet makes updater.stop() raise, which stop_app swallows; cancelling
\* the polling task of a running one from a foreign thread is a race on the
\* asyncio objects and may or may not take effect.  Nothing calls loop.stop()
\* on the context's loop, so run_forever never returns.
StopAppOutcomes(c) ==
    IF ctx[c].phase = "polling"
    THEN {[ctx[c] EXCEPT !.phase = "polling"], [ctx[c] EXCEPT !.phase = "idle"]}
    ELSE {ctx[c]}

\* stop_bot without the membership test of line 139: the lookup of a bot that
\* is not registered raises KeyError and stop_bot returns False
StopCheckUnguarded(t) ==
    /\ th[t].pc = "t_check"
    /\ LET b == th[t].bot IN
       IF active_bots[b] # 0
       THEN th' = [th EXCEPT ![t].found = TRUE, ![t].app = active_bots[b], ![t].pc = "t_stopapp"]
       ELSE th' = [th EXCEPT ![t] = AfterStop([th[t] EXCEPT !.found = FALSE], "fail")]
    /\ UNCHANGED <<botStatus, botToken, active_bots, bot_threads, ctx, monPc, monTodo, calls, notRt>>

\* lines 139-140: if bot.id in self.active_bots: application = ...
StopCheck(t) ==
    /\ th[t].pc = "t_check"
    /\ LET b == th[t].bot IN
       IF active_bots[b] # 0
       THEN th' = [th EXCEPT ![t].found = TRUE, ![t].app = active_bots[b], ![t].pc = "t_stopapp"]
       ELSE th' = [th EXCEPT ![t].found = FALSE, ![t].pc = "t_chkthr"]
    /\ UNCHANGED <<botStatus, botToken, active_bots, bot_threads, ctx, monPc, monTodo, calls, notRt>>

\* lines 141-169: run stop_app against the application
StopApp(t) ==
    /\ th[t].pc = "t_stopapp"
    /\ \E r \in StopAppOutcomes(th[t].app) : ctx' = [ctx EXCEPT ![th[t].app] = r]
    /\ th' = [th EXCEPT ![t].pc = "t_del"]
    /\ UNCHANGED <<botStatus, botToken, active_bots, bot_threads, monPc, monTodo, calls, notRt>>

\* line 171: del self.active_bots[bot.id]; a KeyError goes to line 180
StopDel(t) ==
    /\ th[t].pc = "t_del"
    /\ LET b == th[t].bot IN
       IF active_bots[b] # 0
       THEN /\ active_bots' = [active_bots EXCEPT ![b] = 0]
            /\ th' = [th EXCEPT ![t].pc = "t_chkthr"]
       ELSE /\ active_bots' = active_bots
            /\ th' = [th EXCEPT ![t] = AfterStop(th[t], "fail")]
    /\ UNCHANGED <<botStatus, botToken, bot_threads, ctx, monPc, monTodo, calls, notRt>>

\* line 173: if bot.id in self.bot_threads
StopCheckThr(t) ==
    /\ th[t].pc = "t_chkthr"
    /\ LET b == th[t].bot IN
       IF bot_threads[b] # 0
       THEN th' = [th EXCEPT ![t].foundThr = TRUE, ![t].pc = "t_delthr"]
       ELSE th' = [th EXCEPT ![t] = AfterStop([th[t] EXCEPT !.foundThr = FALSE], "ok")]
    /\ UNCHANGED <<botStatus, botToken, active_bots, bot_threads, ctx, monPc, monTodo, calls, notRt>>

\* line 175: del self.bot_threads[bot.id]; then return True (line 178)
StopDelThr(t) ==
    /\ th[t].pc = "t_delthr"
    /\ LET b == th[t].bot IN
       IF bot_threads[b] # 0
       THEN /\ bot_threads' = [bot_threads EXCEPT ![b] = 0]
            /\ th' = [th EXCEPT ![t] = AfterStop(th[t], "ok")]
       ELSE /\ bot_threads' = bot_threads
            /\ th' = [th EXCEPT ![t] = AfterStop(th[t], "fail")]
    /\ UNCHANGED <<botStatus, botToken, active_bots, ctx, monPc, monTodo, calls, notRt>>

\* ----------------------------------------------- TelegramService.start_bot
AfterStart(rec, r) ==
    [rec EXCEPT !.res = r, !.pc = IF rec.after = "commit_active" THEN "commit_active" ELSE "ret"]

\* the locals of a handler that enters start_bot(bot), tk the token of the bot
\* object: lines 57-63.  A bot without token returns False at once; otherwise
\* stop_bot(bot) runs first.
EnterStart(rec, b, tk, o, aft) ==
    IF tk = "none"
    THEN AfterStart([rec EXCEPT !.op = o, !.bot = b, !.tok = "none", !.call = "start",
                                !.inStart = FALSE, !.after = aft, !.app = 0,
                                !.found = FALSE, !.foundThr = FALSE], "fail")
    ELSE [rec EXCEPT !.op = o, !.bot = b, !.tok = tk, !.call = "start",
                     !.inStart = TRUE, !.after = aft, !.app = 0, !.res = "none",
                     !.found = FALSE, !.foundThr = FALSE, !.pc = "t_check"]

\* the locals of a handler that enters stop_bot(bot)
EnterStop(rec, b, o, aft) ==
    [rec EXCEPT !.op = o, !.bot = b, !.tok = botToken[b], !.call = "stop",
                !.inStart = FALSE, !.after = aft, !.app = 0, !.res = "none",
                !.found = FALSE, !.foundThr = FALSE, !.pc = "t_check"]

\* lines 66-96: build the Application (any exception: line 132, return
\* False) and store it in active_bots
StartBuild(t, buildOk) ==
    /\ th[t].pc = "s_build"
    /\ LET b == th[t].bot IN
       IF buildOk
       THEN /\ FreeCtx # {}
            /\ ctx' = [ctx EXCEPT ![NewCtx] = [bot |-> b, phase |-> "built", svc |-> "web"]]
            /\ active_bots' = [active_bots EXCEPT ![b] = NewCtx]
            /\ th' = [th EXCEPT ![t].app = NewCtx, ![t].inStart = FALSE, ![t].pc = "s_spawn"]
       ELSE /\ ctx' = ctx
            /\ active_bots' = active_bots
            /\ th' = [th EXCEPT ![t] = AfterStart([th[t] EXCEPT !.inStart = FALSE], "fail")]
    /\ UNCHANGED <<botStatus, botToken, bot_threads, monPc, monTodo, calls, notRt>>

\* lines 125-126: bot_thread.start()
StartSpawn(t) ==
    /\ th[t].pc = "s_spawn"
    /\ ctx' = [ctx EXCEPT ![th[t].app].phase = "init"]
    /\ th' = [th EXCEPT ![t].pc = "s_thr"]
    /\ UNCHANGED <<botStatus, botToken, active_bots, bot_threads, monPc, monTodo, calls, notRt>>

\* lines 127-130: self.bot_threads[bot.id] = bot_thread; return True
StartSetThread(t) ==
    /\ th[t].pc = "s_thr"
    /\ bot_threads' = [bot_threads EXCEPT ![th[t].bot] = th[t].app]
    /\ th' = [th EXCEPT ![t] = AfterStart(th[t], "ok")]
    /\ UNCHANGED <<botStatus, botToken, active_bots, ctx, monPc, monTodo, calls, notRt>>

\* ------------------------------------------------------ run_bot (thread)
\* lines 107-112: initialize, start, start_polling succeeded; run_forever
CtxInitOk(c) ==
    /\ ctx[c].phase = "init"
    /\ botToken[ctx[c].bot] = "valid"
    /\ ctx' = [ctx EXCEPT ![c].phase = "polling"]
    /\ UNCHANGED <<botStatus, botToken, active_bots, bot_threads, th, monPc, monTodo, calls, notRt>>

\* the except block of run_bot, lines 114-120: whatever is registered under
\* bot.id in the service that started the context is deleted
CrashCleanup(c, reg) ==
    IF ctx[c].svc = "web" THEN [reg EXCEPT ![ctx[c].bot] = 0] ELSE reg

\* lines 114-123: initialize / start / start_polling raised (the gateway
\* rejects the token, or a network error); the thread ends
CtxInitFail(c) ==
    /\ ctx[c].phase = "init"
    /\ ctx' = [ctx EXCEPT ![c].phase = "dead"]
    /\ active_bots' = CrashCleanup(c, active_bots)
    /\ bot_threads' = CrashCleanup(c, bot_threads)
    /\ UNCHANGED <<botStatus, botToken, th, monPc, monTodo, calls, notRt>>

\* ------------------------------------------------------------ routes.py
\* edit_bot, action setup_telegram (routes.py:240-260): validate_token, then
\* store the token, commit status ACTIVE and start the bot
SetupTelegram(t, b, tokenOk) ==
    /\ th[t].pc = "idle"
    /\ botStatus[b] # "DELETED"
    /\ calls < MaxCalls
    /\ calls' = calls + 1
    /\ IF tokenOk
       THEN /\ CanAllocate
            /\ botToken' = [botToken EXCEPT ![b] = "valid"]
            /\ botStatus' = [botStatus EXCEPT ![b] = "ACTIVE"]
            /\ th' = [th EXCEPT ![t] = EnterStart(th[t], b, "valid", "setup", "none")]
       ELSE /\ UNCHANGED <<botToken, botStatus>>
            /\ th' = [th EXCEPT ![t] = [IdleThread EXCEPT !.op = "setup", !.bot = b, !.pc = "ret"]]
    /\ UNCHANGED <<active_bots, bot_threads, ctx, monPc, monTodo, notRt>>

\* edit_bot, action toggle_status (routes.py:261-278): the new status is
\* committed only after stop_bot / start_bot returned
ToggleStatus(t, b) ==
    /\ th[t].pc = "idle"
    /\ botStatus[b] # "DELETED"
    /\ calls < MaxCalls
    /\ calls' = calls + 1
    /\ IF botStatus[b] = "ACTIVE"
       THEN th' = [th EXCEPT ![t] = EnterStop(th[t], b, "toggle_off", "commit_inactive")]
       ELSE IF botToken[b] # "none"
            THEN /\ CanAllocate
                 /\ th' = [th EXCEPT ![t] = EnterStart(th[t], b, botToken[b], "toggle_on", "commit_active")]
            ELSE th' = [th EXCEPT ![t] = [IdleThread EXCEPT !.op = "toggle_none", !.bot = b, !.pc = "ret"]]
    /\ UNCHANGED <<botStatus, botToken, active_bots, bot_threads, ctx, monPc, monTodo, notRt>>

\* routes.py:275-276, db.session.commit() of bot.status = ACTIVE
CommitActive(t) ==
    /\ th[t].pc = "commit_active"
    /\ botStatus' = [botStatus EXCEPT ![th[t].bot] = IF @ = "DELETED" THEN @ ELSE "ACTIVE"]
    /\ th' = [th EXCEPT ![t].pc = "ret"]
    /\ UNCHANGED <<botToken, active_bots, bot_threads, ctx, monPc, monTodo, calls, notRt>>

\* routes.py:275-276, db.session.commit() of bot.status = INACTIVE
CommitInactive(t) ==
    /\ th[t].pc = "commit_inactive"
    /\ botStatus' = [botStatus EXCEPT ![th[t].bot] = IF @ = "DELETED" THEN @ ELSE "INACTIVE"]
    /\ th' = [th EXCEPT ![t].pc = "ret"]
    /\ UNCHANGED <<botToken, active_bots, bot_threads, ctx, monPc, monTodo, calls, notRt>>

\* delete_bot (routes.py:392-399): stop the bot only if its status is ACTIVE
DeleteBot(t, b) ==
    /\ th[t].pc = "idle"
    /\ botStatus[b] # "DELETED"
    /\ calls < MaxCalls
    /\ calls' = calls + 1
    /\ IF botStatus[b] = "ACTIVE"
       THEN th' = [th EXCEPT ![t] = EnterStop(th[t], b, "delete", "d_row")]
       ELSE th' = [th EXCEPT ![t] = [IdleThread EXCEPT !.op = "delete", !.bot = b, !.pc = "d_row"]]
    /\ UNCHANGED <<botStatus, botToken, active_bots, bot_threads, ctx, monPc, monTodo, notRt>>

\* delete_bot (routes.py:401-403): db.session.delete(bot); commit
DeleteRow(t) ==
    /\ th[t].pc = "d_row"
    /\ botStatus' = [botStatus EXCEPT ![th[t].bot] = "DELETED"]
    /\ th' = [th EXCEPT ![t].pc = "ret"]
    /\ UNCHANGED <<botToken, active_bots, bot_threads, ctx, monPc, monTodo, calls, notRt>>

\* the handler returns its response; its locals are gone
Return(t) ==
    /\ th[t].pc = "ret"
    /\ th' = [th EXCEPT ![t] = IdleThread]
    /\ UNCHANGED <<botStatus, botToken, active_bots, bot_threads, ctx, monPc, monTodo, calls, notRt>>

\* the gateway revokes the token of a bot (the owner resets it at the gateway)
RevokeToken(b) ==
    /\ botToken[b] = "valid"
    /\ botToken' = [botToken EXCEPT ![b] = "revoked"]
    /\ UNCHANGED <<botStatus, active_bots, bot_threads, ctx, th, monPc, monTodo, calls, notRt>>

\* ------------------------------------------------------- bot_monitor.py
\* monitor_bots, line 19: the ACTIVE bots of the database
MonitorScan ==
    /\ monPc = "sleep"
    /\ monPc' = "scan"
    /\ monTodo' = {b \in Bots : botStatus[b] = "ACTIVE"}
    /\ UNCHANGED <<botStatus, botToken, active_bots, bot_threads, ctx, th, calls, notRt>>

\* monitor_bots, lines 21-29.  The TelegramService of line 16 is new in every
\* cycle, its active_bots is empty, so the test of line 23 holds for every bot
\* and start_bot runs on the new service: its stop_bot finds nothing, the
\* Application is built and a run_bot thread is started.
MonitorBot(b, buildOk) ==
    /\ monPc = "scan"
    /\ b \in monTodo
    /\ monTodo' = monTodo \ {b}
    /\ IF botToken[b] # "none" /\ buildOk
       THEN /\ CanAllocate
            /\ ctx' = [ctx EXCEPT ![NewCtx] = [bot |-> b, phase |-> "init", svc |-> "mon"]]
       ELSE ctx' = ctx
    /\ UNCHANGED <<botStatus, botToken, active_bots, bot_threads, th, monPc, calls, notRt>>

\* monitor_loop, line 51: the cycle is over, sleep
MonitorSleep ==
    /\ monPc = "scan"
    /\ monTodo = {}
    /\ monPc' = "sleep"
    /\ UNCHANGED <<botStatus, botToken, active_bots, bot_threads, ctx, th, monTodo, calls, notRt>>

\* ------------------------------------------------------- specifications
RequestStep(t) ==
    \/ \E b \in Bots, ok \in BOOLEAN : SetupTelegram(t, b, ok)
    \/ \E b \in Bots : ToggleStatus(t, b)
    \/ \E b \in Bots : DeleteBot(t, b)
    \/ StopCheck(t) \/ StopApp(t) \/ StopDel(t) \/ StopCheckThr(t) \/ StopDelThr(t)
    \/ \E ok \in BOOLEAN : StartBuild(t, ok)
    \/ StartSpawn(t) \/ StartSetThread(t)
    \/ CommitActive(t) \/ CommitInactive(t) \/ DeleteRow(t) \/ Return(t)

CtxStep == \E c \in CtxIds : CtxInitOk(c) \/ CtxInitFail(c)

MonitorStep ==
    \/ MonitorScan
    \/ \E b \in Bots, ok \in BOOLEAN : MonitorBot(b, ok)
    \/ MonitorSleep

Gateway == \E b \in Bots : RevokeToken(b)

\* the web process: request threads that run concurrently, the contexts
Next ==
    \/ \E t \in Threads : RequestStep(t)
    \/ CtxStep

Spec == Init /\ [][Next]_vars

\* one request thread, no watchdog: the runtime manager called sequentially
SeqNext ==
    \/ RequestStep("r1")
    \/ CtxStep
    \/ Gateway

SeqSpec == Init /\ [][SeqNext]_vars

\* one request thread and the watchdog of bot_monitor.py
MonNext ==
    \/ RequestStep("r1")
    \/ CtxStep
    \/ MonitorStep
    \/ Gateway

MonSpec == Init /\ [][MonNext]_vars

\* threads of the operating system are scheduled fairly: every call that
\* was entered runs to its end, every context thread and the watchdog advance
FairSpec ==
    /\ Init /\ [][MonNext]_vars
    /\ \A t \in {"r1"} : WF_vars(StopCheck(t) \/ StopApp(t) \/ StopDel(t) \/ StopCheckThr(t) \/ StopDelThr(t)
                                  \/ StartSpawn(t) \/ StartSetThread(t) \/ CommitActive(t)
                                  \/ CommitInactive(t) \/ DeleteRow(t) \/ Return(t))
    /\ WF_vars(CtxStep)
    /\ WF_vars(MonitorStep)

TypeOK ==
    /\ botStatus \in [Bots -> {"INACTIVE", "ACTIVE", "DELETED"}]
    /\ botToken \in [Bots -> {"none", "valid", "revoked"}]
    /\ active_bots \in [Bots -> 0..MaxCtx]
    /\ bot_threads \in [Bots -> 0..MaxCtx]
    /\ \A c \in CtxIds : ctx[c].phase \in {"none", "built", "init", "polling", "idle", "dead"}
    /\ monPc \in {"sleep", "scan"}
    /\ monTodo \subseteq Bots

\* ------------------------------------------------------------- claims
OtherBots(b) == Bots \ {b}

\* thread t has returned from a handler whose runtime call was k
Returned(t, k) == th[t].pc = "ret" /\ th[t].call = k

\* thread t is inside start_bot or stop_bot
InRuntimeCall(t) ==
    th[t].pc \in {"t_check", "t_stopapp", "t_del", "t_chkthr", "t_delthr", "s_build", "s_spawn", "s_thr"}

\* C1: after a sequence of start(B) and stop(B) calls that ends with a
\* successful start(B), only the context made by that start runs for B and the
\* registry lists it: no context of an earlier start is still polling.
C1_OnlyNewestContextRuns ==
    \A t \in Threads :
        (Returned(t, "start") /\ th[t].res = "ok") =>
            /\ RunningOf(th[t].bot) \subseteq {th[t].app}
            /\ (Running(th[t].app) => active_bots[th[t].bot] = th[t].app)

\* C2: calls on the registry are mutually exclusive per bot id, so no bot id
\* ever has two running connections.
C2_MutexAndOneConnection ==
    /\ \A t1, t2 \in Threads :
          (t1 # t2 /\ InRuntimeCall(t1) /\ InRuntimeCall(t2)) => th[t1].bot # th[t2].bot
    /\ \A b \in Bots : Cardinality(RunningOf(b)) <= 1

\* stop_bot returned True to thread t after it ran against context c
StopReturnedFor(t, c) ==
    Returned(t, "stop") /\ th[t].res = "ok" /\ th[t].found /\ th[t].app = c /\ Live(c)

\* C3: once stop(B) has returned for a running bot B, the thread of B's
\* execution context eventually ends.
C3_StoppedContextTerminates ==
    \A c \in CtxIds : (\E t \in Threads : StopReturnedFor(t, c)) ~> (ctx[c].phase = "dead")

\* the runtime state and the persisted state are what they were
RuntimeFrame == UNCHANGED <<active_bots, bot_threads, ctx, botStatus, botToken, notRt>>

\* C4: stop(B) on a bot without connection (no entry under B in the registry)
\* is a no-op: each of its steps leaves the registry, the contexts and the
\* persisted rows unchanged, and it returns True.
C4_StopWithoutConnectionIsNoop ==
    [][\A t \in Threads :
         LET b == th[t].bot IN
         /\ (/\ th[t].call = "stop" /\ th[t].pc = "t_check" /\ active_bots[b] = 0
             /\ th'[t] # th[t])
            => (RuntimeFrame /\ th'[t].pc = "t_chkthr" /\ ~th'[t].found)
         /\ (/\ th[t].call = "stop" /\ th[t].pc = "t_chkthr" /\ ~th[t].found /\ bot_threads[b] = 0
             /\ th'[t] # th[t])
            => (RuntimeFrame /\ th'[t].res = "ok" /\ th'[t].pc = th[t].after)]_vars

\* a stop_bot that found nothing has returned while another bot is registered
C4_Witness ==
    \E t \in Threads :
        /\ Returned(t, "stop") /\ ~th[t].found /\ ~th[t].foundThr /\ th[t].res = "ok"
        /\ \E o \in OtherBots(th[t].bot) : active_bots[o] # 0 /\ bot_threads[o] # 0

\* C5: a context that terminates unexpectedly removes its own registry entry
\* and never the entry of another (newer) connection.
C5_CrashRemovesOnlyOwnEntry ==
    [][\A c \in CtxIds :
         (ctx[c].phase = "init" /\ ctx'[c].phase = "dead") =>
            /\ active_bots'[ctx[c].bot] # c
            /\ \A b \in Bots :
                  /\ (active_bots'[b] # active_bots[b]) => active_bots[b] = c
                  /\ (bot_threads'[b] # bot_threads[b]) => bot_threads[b] = c]_vars

C7_StartFailsOnBadCredential ==
    \A t \in Threads :
        (Returned(t, "start") /\ th[t].tok # "valid") =>
            /\ th[t].res = "fail"
            /\ active_bots[th[t].bot] = 0
            /\ bot_threads[th[t].bot] = 0
            /\ LiveOf(th[t].bot) = {}

\* C8: when delete_bot has completed for B, B is not in the registry and no
\* execution context of B is running.
C8_DeleteStopsConnection ==
    \A t \in Threads :
        (th[t].pc = "ret" /\ th[t].op = "delete") =>
            /\ ~is_bot_active(th[t].bot)
            /\ RunningOf(th[t].bot) = {}

\* ------------------------------------------ dispatch: _track_conversation
\* the rows of the conversations table of the pair (b, u)
RowsOf(b, u) == {i \in 1..Len(convs) : convs[i].bot = b /\ convs[i].user = u}

\* Conversation.query.filter_by(bot_id, telegram_user_id).first(): a row of
\* the pair, 0 when there is none
FirstRow(b, u) == IF RowsOf(b, u) = {} THEN 0 ELSE CHOOSE i \in RowsOf(b, u) : \A j \in RowsOf(b, u) : i <= j

\* _handle_message, telegram_service.py:254-267: the polling thread h of a
\* context of bot b receives a text message of participant u
\* _get_user_language, lines 670-690: the cached language, else the one of
\* the TelegramUser row, else Uzbek
get_user_language(u) ==
    IF user_languages[u] # "none" THEN user_languages[u]
    ELSE IF langDb[u] # "none" THEN langDb[u]
    ELSE "uz"

\* line 683: a language found in the database is cached
CacheAfterGet(u) ==
    IF user_languages[u] = "none" /\ langDb[u] # "none"
    THEN [user_languages EXCEPT ![u] = langDb[u]]
    ELSE user_languages

HandleMessage(h, b, u) ==
    /\ hd[h].pc = "idle"
    /\ hd[h].bot \in {0, b}
    /\ msgs < MaxMsgs
    /\ msgs' = msgs + 1
    /\ \E c \in ChatsOf(u) :
          hd' = [hd EXCEPT ![h] = [IdleHandler EXCEPT !.pc = "query", !.bot = b, !.user = u, !.chat = c]]
    /\ user_languages' = CacheAfterGet(u)
    /\ UNCHANGED <<convs, clock, aiAvailable, langDb, lr, botTotal, notDp>>

\* _track_conversation, lines 789-792: look the conversation up
TrackQuery(h) ==
    /\ hd[h].pc = "query"
    /\ hd' = [hd EXCEPT ![h].row = FirstRow(hd[h].bot, hd[h].user),
                        ![h].pc = IF FirstRow(hd[h].bot, hd[h].user) = 0 THEN "insert" ELSE "update"]
    /\ UNCHANGED <<convs, clock, msgs, dpVars, notDp>>

\* line 796: conversation.last_message_at = datetime.utcnow()
TrackUpdate(h) ==
    /\ hd[h].pc = "update"
    /\ hd' = [hd EXCEPT ![h].t = clock, ![h].pc = "commit"]
    /\ UNCHANGED <<convs, clock, msgs, dpVars, notDp>>

\* lines 800-804: a new Conversation is added to the session
TrackInsert(h) ==
    /\ hd[h].pc = "insert"
    /\ hd' = [hd EXCEPT ![h].pc = "commit"]
    /\ UNCHANGED <<convs, clock, msgs, dpVars, notDp>>

\* line 807, db.session.commit(): the UPDATE writes the time read at line 796,
\* the INSERT takes the column default datetime.utcnow (models.py:177); a
\* failed commit is rolled back (lines 809-814)
TrackCommit(h, ok) ==
    /\ hd[h].pc = "commit"
    /\ IF ~ok THEN convs' = convs
       ELSE IF hd[h].row = 0
            THEN convs' = Append(convs, [bot |-> hd[h].bot, user |-> hd[h].user, chat_id |-> hd[h].chat,
                                         last_message_at |-> clock])
            ELSE convs' = [convs EXCEPT ![hd[h].row].last_message_at = hd[h].t]
    /\ hd' = [hd EXCEPT ![h].pc = "nadmin", ![h].t = 0, ![h].chat = 0]
    /\ UNCHANGED <<clock, msgs, dpVars, notDp>>

\* the mutation of NotifyAdmin: a failed send to the admin chat ends
\* _send_notification
NotifyAdminAborts(h, o) ==
    /\ hd[h].pc \in {"nadmin", "radmin"}
    /\ hd' = [hd EXCEPT ![h].pc = IF o = "failed"
                                   THEN (IF hd[h].pc = "nadmin" THEN "ai" ELSE "stats")
                                   ELSE (IF hd[h].pc = "nadmin" THEN "nchan" ELSE "rchan")]
    /\ UNCHANGED <<convs, clock, msgs, dpVars, notDp>>

\* _send_notification, lines 435-444, called at line 276 (the message) and
\* at line 296 (the answer): the send to the admin chat; o tells whether no
\* admin chat is configured, the send went through or failed; the failure is
\* logged
NotifyAdmin(h, o) ==
    /\ hd[h].pc \in {"nadmin", "radmin"}
    /\ hd' = [hd EXCEPT ![h].pc = IF hd[h].pc = "nadmin" THEN "nchan" ELSE "rchan"]
    /\ UNCHANGED <<convs, clock, msgs, dpVars, notDp>>

\* lines 446-455: the send to the notification channel, likewise
NotifyChannel(h, o) ==
    /\ hd[h].pc \in {"nchan", "rchan"}
    /\ hd' = [hd EXCEPT ![h].pc = IF hd[h].pc = "nchan" THEN "ai" ELSE "stats"]
    /\ UNCHANGED <<convs, clock, msgs, dpVars, notDp>>

\* AIService.get_response, ai_service.py:22-107: without API key the
\* "unavailable" text (line 25); else what the backend call of lines 75-85
\* gives: a text, a text for which _find_relevant_image finds an image (the
\* dict of lines 94-98), an empty text ("I apologize", line 101), or an exception,
\* which the except block of lines 103-107 turns into "technical
\* difficulties"; the mutation lets the exception through
GetResponseRaises(outcome) ==
    IF ~aiAvailable THEN "unavailable"
    ELSE CASE outcome = "text" -> "ai"
           [] outcome = "media" -> "ai_media"
           [] outcome = "empty" -> "apology"
           [] outcome = "raise" -> "raised"

get_response(outcome) ==
    IF ~aiAvailable THEN "unavailable"
    ELSE CASE outcome = "text" -> "ai"
           [] outcome = "media" -> "ai_media"
           [] outcome = "empty" -> "apology"
           [] outcome = "raise" -> "difficulties"

\* _handle_message, line 280: the call of get_response returns; the backend
\* call inside it blocks until the backend answers
AiCall(h, outcome) ==
    /\ hd[h].pc = "ai"
    /\ hd' = [hd EXCEPT ![h].out = get_response(outcome), ![h].pc = "reply"]
    /\ UNCHANGED <<convs, clock, msgs, dpVars, notDp>>

\* lines 283-298: a dict response is replaced by its str() (lines 286-287),
\* then reply_text with the response; when the gateway refuses it (or
\* get_response had raised) the except block of line 303 is entered
Reply(h, sent) ==
    /\ hd[h].pc = "reply"
    /\ hd' = [hd EXCEPT ![h].pc = IF sent /\ hd[h].out # "raised" THEN "radmin" ELSE "err",
                        ![h].out = IF hd[h].out = "ai_media" THEN "dict_text" ELSE hd[h].out]
    /\ UNCHANGED <<convs, clock, msgs, dpVars, notDp>>

\* lines 303-309: the localized error text is sent, the handler ends; the
\* statistics are not updated on this path
ErrReply(h) ==
    /\ hd[h].pc = "err"
    /\ hd' = [hd EXCEPT ![h] = [IdleHandler EXCEPT !.bot = hd[h].bot]]
    /\ UNCHANGED <<convs, clock, msgs, dpVars, notDp>>

\* _update_bot_stats, line 466: bot.total_messages += 1 reads the count
StatsRead(h) ==
    /\ hd[h].pc = "stats"
    /\ hd' = [hd EXCEPT ![h].n = botTotal[hd[h].bot], ![h].pc = "scommit"]
    /\ UNCHANGED <<convs, clock, msgs, dpVars, notDp>>

\* the mutation of StatsCommit: the failed commit is not caught and reaches
\* the except block of _handle_message
StatsCommitUnwinds(h, ok) ==
    /\ hd[h].pc = "scommit"
    /\ botTotal' = IF ok THEN [botTotal EXCEPT ![hd[h].bot] = hd[h].n + 1] ELSE botTotal
    /\ hd' = [hd EXCEPT ![h] = IF ok THEN [IdleHandler EXCEPT !.bot = hd[h].bot]
                                  ELSE [hd[h] EXCEPT !.pc = "err"]]
    /\ UNCHANGED <<convs, clock, msgs, aiAvailable, langDb, user_languages, lr, notDp>>

\* lines 466-468: the incremented count is committed and the handler ends;
\* a failed commit enters the except block of line 470
StatsCommit(h, ok) ==
    /\ hd[h].pc = "scommit"
    /\ botTotal' = IF ok THEN [botTotal EXCEPT ![hd[h].bot] = hd[h].n + 1] ELSE botTotal
    /\ hd' = [hd EXCEPT ![h] = IF ok THEN [IdleHandler EXCEPT !.bot = hd[h].bot]
                                  ELSE [hd[h] EXCEPT !.pc = "rollback"]]
    /\ UNCHANGED <<convs, clock, msgs, aiAvailable, langDb, user_languages, lr, notDp>>

\* lines 470-475: the failure is logged, the session rolled back, the handler
\* ends
StatsRollback(h) ==
    /\ hd[h].pc = "rollback"
    /\ hd' = [hd EXCEPT ![h] = [IdleHandler EXCEPT !.bot = hd[h].bot]]
    /\ UNCHANGED <<convs, clock, msgs, dpVars, notDp>>

\* time passes
ClockTick ==
    /\ clock < MaxClock
    /\ clock' = clock + 1
    /\ UNCHANGED <<convs, hd, msgs, dpVars, notDp>>

\* one step of the handler h
HandlerStep(h) ==
    \/ \E b \in Bots, u \in Participants : HandleMessage(h, b, u)
    \/ TrackQuery(h)
    \/ TrackUpdate(h)
    \/ TrackInsert(h)
    \/ \E ok \in BOOLEAN : TrackCommit(h, ok)
    \/ \E o \in {"unset", "sent", "failed"} : NotifyAdmin(h, o)
    \/ \E o \in {"unset", "sent", "failed"} : NotifyChannel(h, o)
    \/ \E outcome \in {"text", "media", "empty", "raise"} : AiCall(h, outcome)
    \/ \E sent \in BOOLEAN : Reply(h, sent)
    \/ ErrReply(h)
    \/ StatsRead(h)
    \/ \E ok \in BOOLEAN : StatsCommit(h, ok)
    \/ StatsRollback(h)

\* the steps of the message handlers alone
DispatchNext == \E h \in Handlers : HandlerStep(h)

ConvNext ==
    \/ DispatchNext
    \/ ClockTick

ConvSpec == Init /\ [][ConvNext]_vars

\* the API key is present or missing when the service is constructed
\* (ai_service.py:10-20)
DispatchInit ==
    /\ RtInit /\ ConvInit /\ NtInit /\ BcInit
    /\ aiAvailable \in BOOLEAN
    /\ langDb = [u \in Participants |-> "none"]
    /\ user_languages = [u \in Participants |-> "none"]
    /\ lr = NoResolution
    /\ botTotal = [b \in Bots |-> 0]
    /\ SzInit

DispatchSpec == DispatchInit /\ [][DispatchNext]_vars

\* the steps of a handler that follow from the code's own control flow: all
\* but the arrival of a message and the return of the backend call, which
\* get_response awaits without a timeout (ai_service.py:75-85); without API
\* key get_response returns at once (line 25)
HandlerProgress(h) ==
    \/ TrackQuery(h)
    \/ TrackUpdate(h)
    \/ TrackInsert(h)
    \/ \E ok \in BOOLEAN : TrackCommit(h, ok)
    \/ \E o \in {"unset", "sent", "failed"} : NotifyAdmin(h, o)
    \/ \E o \in {"unset", "sent", "failed"} : NotifyChannel(h, o)
    \/ (~aiAvailable /\ AiCall(h, "text"))
    \/ \E sent \in BOOLEAN : Reply(h, sent)
    \/ ErrReply(h)
    \/ StatsRead(h)
    \/ \E ok \in BOOLEAN : StatsCommit(h, ok)
    \/ StatsRollback(h)

\* one polling thread handling its messages one after the other
DeliverNext == HandlerStep("h1")

DeliverSpec == DispatchInit /\ [][DeliverNext]_vars /\ WF_vars(HandlerProgress("h1"))

\* C9: every (bot, participant) pair has at most one Conversation row, exactly
\* one once a message of the pair was tracked, and the last-activity time of a
\* row never decreases.
C9_OneConversationPerPair ==
    /\ [](\A b \in Bots, u \in Participants : Cardinality(RowsOf(b, u)) <= 1)
    /\ [][\A i \in 1..Len(convs) : convs'[i].last_message_at >= convs[i].last_message_at]_vars

\* ------------------------------------------- NotificationService (sweep)
\* Bot.user_id
OwnerOf(b) == b

\* current_time.date(): midnight of the day of hour t
DayStart(t) == (t \div OneDay) * OneDay

\* the filters of the four queries, notification_service.py:92-99, 116-122,
\* 143-150, 166-172, read at time ct
Eligible(k, ct) ==
    {u \in Tenants :
        /\ endDate[u] # -1
        /\ subActive[u]
        /\ CASE k = 1 -> /\ subType[u] = "FREE"
                         /\ endDate[u] >= ct + ThreeDays - OneHour
                         /\ endDate[u] <= ct + ThreeDays + OneHour
             [] k = 2 -> subType[u] = "FREE" /\ endDate[u] <= ct
             [] k = 3 -> /\ subType[u] \in {"BASIC", "PREMIUM"}
                         /\ endDate[u] >= ct + OneDay - OneHour
                         /\ endDate[u] <= ct + OneDay + OneHour
             [] k = 4 -> subType[u] \in {"BASIC", "PREMIUM"} /\ endDate[u] <= ct}

\* "notification already sent today", lines 103-108: a committed row of the
\* tenant and type created on or after midnight of the sweep's day
Existing(u, k, ct) ==
    \E i \in 1..Len(notes) :
        notes[i].user = u /\ notes[i].kind = k /\ notes[i].created_at >= DayStart(ct)

\* check_and_send_notifications, lines 69-72: current_time = utcnow(), then
\* the query of _check_trial_expiring_3_days
SweepBegin(x) ==
    /\ sw[x].pc = "idle"
    /\ sweeps < MaxSweeps
    /\ sweeps' = sweeps + 1
    /\ sw' = [sw EXCEPT ![x] = [IdleSweep EXCEPT !.pc = "loop", !.current_time = now, !.kind = 1,
                                                 !.todo = Eligible(1, now)]]
    /\ UNCHANGED <<now, subType, endDate, subActive, botIsActive, templates, notes, notNt>>

\* _send_notification, lines 214-219: the tenant's bots with is_active and a
\* telegram_token
UserBots(u) == {b \in Bots : OwnerOf(b) = u /\ botIsActive[b] /\ botStatus[b] # "DELETED" /\ botToken[b] # "none"}

\* lines 231-237: the chats the fan-out writes to, SELECT DISTINCT
\* telegram_user_id of the conversations of each of these bots
FanoutChats(u) == {<<convs[i].bot, convs[i].user>> : i \in {j \in 1..Len(convs) : convs[j].bot \in UserBots(u)}}

\* for user in users: look for today's notification of this type (lines
\* 103-110); when there is none enter _send_notification, lines 193-226:
\* without template it returns False; else the UserNotification is added and
\* flushed with created_at = utcnow, and without active bot it is committed
\* at once ("No active bots found")
SweepCheck(x, u) ==
    /\ sw[x].pc = "loop"
    /\ u \in sw[x].todo
    /\ LET skip == Existing(u, sw[x].kind, sw[x].current_time)
           tmpl == sw[x].kind \in templates
       IN /\ sw' = [sw EXCEPT ![x].todo = @ \ {u},
                              ![x].user = u,
                              ![x].created_at = now,
                              ![x].chats = IF ~skip /\ tmpl THEN FanoutChats(u) ELSE {},
                              ![x].pc = IF skip THEN "loop"
                                        ELSE IF tmpl /\ UserBots(u) # {} THEN "fanout" ELSE "after"]
          /\ notes' = IF ~skip /\ tmpl /\ UserBots(u) = {}
                      THEN Append(notes, [user |-> u, kind |-> sw[x].kind, created_at |-> now])
                      ELSE notes
    /\ UNCHANGED <<now, subType, endDate, subActive, botIsActive, templates, sweeps, notNt>>

\* the loop of one _check_* function is over: the query of the next one
\* (lines 75-81), or the end of the sweep
SweepNextKind(x) ==
    /\ sw[x].pc = "loop"
    /\ sw[x].todo = {}
    /\ sw' = [sw EXCEPT ![x] = IF sw[x].kind < Len(Kinds)
                                THEN [sw[x] EXCEPT !.kind = @ + 1,
                                                   !.todo = Eligible(sw[x].kind + 1, sw[x].current_time)]
                                ELSE IdleSweep]
    /\ UNCHANGED <<now, subType, endDate, subActive, botIsActive, templates, notes, sweeps, notNt>>

\* _send_notification, lines 221-270: the fan-out, then the commit that makes
\* the row visible; an exception rolls the row back
SweepCommit(x, ok) ==
    /\ sw[x].pc = "fanout"
    /\ notes' = IF ok THEN Append(notes, [user |-> sw[x].user, kind |-> sw[x].kind, created_at |-> sw[x].created_at])
                ELSE notes
    /\ sw' = [sw EXCEPT ![x].pc = "after"]
    /\ UNCHANGED <<now, subType, endDate, subActive, botIsActive, templates, sweeps, notNt>>

\* _deactivate_user_bots, lines 273-283
DeactivatedBots(u) == [b \in Bots |-> IF OwnerOf(b) = u THEN FALSE ELSE botIsActive[b]]

\* what follows _send_notification in the _check_* function: lines 135-136
\* (trial expired), 184-187 (subscription expired), nothing for the others
SweepAfter(x) ==
    /\ sw[x].pc = "after"
    /\ botIsActive' = IF sw[x].kind \in {2, 4} THEN DeactivatedBots(sw[x].user) ELSE botIsActive
    /\ subActive' = IF sw[x].kind = 4 THEN [subActive EXCEPT ![sw[x].user] = FALSE] ELSE subActive
    /\ sw' = [sw EXCEPT ![x].pc = "loop"]
    /\ UNCHANGED <<now, subType, endDate, templates, notes, sweeps, notNt>>

\* time passes
NowTick ==
    /\ now < MaxNow
    /\ now' = now + 1
    /\ UNCHANGED <<subType, endDate, subActive, botIsActive, templates, notes, sw, sweeps, notNt>>

\* the tenants' subscriptions when the sweeps start to run; the templates of
\* initialize_templates are loaded or not (app.py:119-121)
NtStart ==
    /\ now = StartNow
    /\ subType \in [Tenants -> {"FREE", "BASIC"}]
    /\ endDate \in [Tenants -> EndDates]
    /\ subActive = [u \in Tenants |-> TRUE]
    /\ botIsActive = [b \in Bots |-> TRUE]
    /\ templates \in {{}, 1..Len(Kinds)}
    /\ notes = <<>>
    /\ sw = [x \in Sweepers |-> IdleSweep]
    /\ sweeps = 0

\* the runtime manager when the sweeps start: bot 1 was set up through
\* setup_telegram and its context polls, bot 2 was never given a token
RtStart ==
    /\ botStatus = [b \in Bots |-> IF b = 1 THEN "ACTIVE" ELSE "INACTIVE"]
    /\ botToken = [b \in Bots |-> IF b = 1 THEN "valid" ELSE "none"]
    /\ active_bots = [b \in Bots |-> IF b = 1 THEN 1 ELSE 0]
    /\ bot_threads = [b \in Bots |-> IF b = 1 THEN 1 ELSE 0]
    /\ ctx = [c \in CtxIds |-> IF c = 1 THEN [bot |-> 1, phase |-> "polling", svc |-> "web"] ELSE NoCtx]
    /\ th = [t \in Threads |-> IdleThread]
    /\ monPc = "sleep"
    /\ monTodo = {}
    /\ calls = 1

\* the conversations table when the sweeps start: participant 7 has written
\* to bot 1
ConvStart ==
    /\ convs = <<[bot |-> 1, user |-> 7, chat_id |-> 7, last_message_at |-> 0]>>
    /\ clock = 0
    /\ hd = [h \in Handlers |-> IF h = "h1" THEN [IdleHandler EXCEPT !.bot = 1] ELSE IdleHandler]
    /\ msgs = 1

\* the state in which the sweeps start
NotifyInit == RtStart /\ ConvStart /\ NtStart /\ BcInit /\ DpInit

SweepStep(x) ==
    \/ SweepBegin(x)
    \/ \E u \in Tenants : SweepCheck(x, u)
    \/ SweepNextKind(x)
    \/ \E ok \in BOOLEAN : SweepCommit(x, ok)
    \/ SweepAfter(x)

NotifyNext ==
    \/ \E x \in Sweepers : SweepStep(x)
    \/ NowTick

\* sweeps triggered from outside, which may overlap in time
NotifySpec == NotifyInit /\ [][NotifyNext]_vars

\* one sweep at a time
NotifySeqNext ==
    \/ SweepStep("s1")
    \/ NowTick

NotifySeqSpec == NotifyInit /\ [][NotifySeqNext]_vars

\* the notification sweep and the watchdog of bot_monitor.py side by side
WatchNext ==
    \/ SweepStep("s1")
    \/ NowTick
    \/ MonitorStep
    \/ CtxStep

WatchSpec == NotifyInit /\ [][WatchNext]_vars

\* C10: no tenant has two notification rows of the same type created on the
\* same calendar day.
C10_OneNotificationPerDay ==
    \A i, j \in 1..Len(notes) :
        (i < j /\ notes[i].user = notes[j].user /\ notes[i].kind = notes[j].kind)
            => notes[i].created_at \div OneDay # notes[j].created_at \div OneDay

\* C11: a lifecycle transition of a tenant is fanned out to the tenant's chats
\* at most once: no sweep starts a fan-out of a notification type to a tenant
\* for whom a notification of that type is already recorded.
C11_NoSecondFanout ==
    [][\A x \in Sweepers :
        (sw[x].pc = "loop" /\ sw'[x].pc = "fanout" /\ sw'[x].chats # {})
            => ~\E i \in 1..Len(notes) : notes[i].user = sw'[x].user /\ notes[i].kind = sw'[x].kind]_vars

\* C12: when a sweep has processed an expired transition (TRIAL_EXPIRED,
\* SUBSCRIPTION_EXPIRED) of a tenant, the tenant's subscription flag and all
\* of the tenant's bots are inactive; an expiring-soon transition deactivates
\* nothing.
C12_ExpiredDeactivates ==
    [][\A x \in Sweepers :
        (sw[x].pc = "after" /\ sw'[x].pc = "loop")
            => IF sw[x].kind \in {2, 4}
               THEN /\ ~subActive'[sw[x].user]
                    /\ \A b \in Bots : OwnerOf(b) = sw[x].user => ~botIsActive'[b]
               ELSE subActive' = subActive /\ botIsActive' = botIsActive]_vars

\* C13: once the sweeps are over, no bot that was deactivated has a registry
\* entry or a running connection.
C13_DeactivatedBotsAreStopped ==
    (\A x \in Sweepers : sw[x].pc = "idle")
        => \A b \in Bots : ~botIsActive[b] => (~is_bot_active(b) /\ RunningOf(b) = {})

\* ------------------------------------------------------ BroadcastService
\* the rows of a query in the order the database returns them: by id
RECURSIVE ById(_)
ById(S) == IF S = {} THEN <<>>
           ELSE LET m == CHOOSE x \in S : \A y \in S : x <= y IN <<m>> \o ById(S \ {m})

RECURSIVE Concat(_)
Concat(ss) == IF ss = <<>> THEN <<>> ELSE Head(ss) \o Concat(Tail(ss))

\* get_target_bots, broadcast_service.py:49-54: the base tier, plus the tiers
\* the flags allow; the mutation appends them whatever the flags say
TargetSubscriptionsAnyFlag(b) == {b.target_subscription, "BASIC", "PREMIUM"}

TargetSubscriptions(b) ==
    {b.target_subscription}
        \cup (IF b.allow_basic THEN {"BASIC"} ELSE {})
        \cup (IF b.allow_premium THEN {"PREMIUM"} ELSE {})

\* lines 57-61: the users joined with their subscription
TargetUsers(b) ==
    ById({u \in Tenants : subType[u] \in TargetSubscriptions(b) /\ subActive[u] /\ userActive[u]})

\* lines 64-74: the active bots with a token of each of these users, one
\* user after the other
get_target_bots(b) ==
    Concat([k \in 1..Len(TargetUsers(b)) |->
              ById({x \in Bots : /\ OwnerOf(x) = TargetUsers(b)[k]
                                 /\ botStatus[x] # "DELETED"
                                 /\ botIsActive[x]
                                 /\ botToken[x] # "none"})])

\* _send_to_bot_users, lines 155-159: the distinct chats of the bot's
\* conversations
BotChats(b) == {convs[i].user : i \in {j \in 1..Len(convs) : convs[j].bot = b}}

\* routes.py:643-652, preview_broadcast
PreviewBroadcast ==
    /\ bc.exists
    /\ preview' = [shown |-> TRUE, bots |-> get_target_bots(bc)]
    /\ UNCHANGED <<userActive, language, cn, bc, deliveries, attempts, bs, sends, notBc>>

\* the sender s returns with result r
Finish(rec, r) == [rec EXCEPT !.pc = "done", !.res = r]

\* routes.py:625-634, the admin's send request: get_or_404, "already sent"
\* when is_sent, else BroadcastService.send_broadcast
RouteSend(s) ==
    /\ s = "m"
    /\ bs[s].pc \in {"idle", "done"}
    /\ bc.exists
    /\ sends < MaxSends
    /\ sends' = sends + 1
    /\ bs' = [bs EXCEPT ![s] = IF bc.is_sent THEN Finish(IdleSender, "already_sent")
                                ELSE [IdleSender EXCEPT !.pc = "check"]]
    /\ UNCHANGED <<userActive, language, cn, bc, deliveries, attempts, preview, notBc>>

\* check_and_send_scheduled_broadcasts, lines 250-261: the scheduled, unsent
\* broadcasts whose time has come are sent
SchedQuery(s) ==
    /\ s = "c"
    /\ bs[s].pc \in {"idle", "done"}
    /\ bc.exists
    /\ sends < MaxSends
    /\ sends' = sends + 1
    /\ bs' = [bs EXCEPT ![s] = IF bc.is_scheduled /\ ~bc.is_sent /\ bc.scheduled_at <= now
                                THEN [IdleSender EXCEPT !.pc = "check"]
                                ELSE Finish(IdleSender, "nothing_ready")]
    /\ UNCHANGED <<userActive, language, cn, bc, deliveries, attempts, preview, notBc>>

\* the mutation of SendCheck: the is_sent test of line 87 is left out
SendCheckAgain(s, ok) ==
    /\ bs[s].pc = "check"
    /\ IF ok
       THEN /\ bc' = [bc EXCEPT !.total_bots = Len(get_target_bots(bc))]
            /\ bs' = [bs EXCEPT ![s].targets = get_target_bots(bc),
                                ![s].i = 1,
                                ![s].pc = IF get_target_bots(bc) = <<>> THEN "final" ELSE "bot"]
       ELSE /\ bc' = bc
            /\ bs' = [bs EXCEPT ![s] = Finish(bs[s], "error")]
    /\ UNCHANGED <<userActive, language, cn, deliveries, attempts, sends, preview, notBc>>

\* send_broadcast, lines 83-92: "already sent" when is_sent; else the targets
\* are resolved and total_bots is committed; an exception (ok = FALSE) is
\* rolled back and reported, lines 142-145
SendCheck(s, ok) ==
    /\ bs[s].pc = "check"
    /\ IF bc.is_sent
       THEN /\ bc' = bc
            /\ bs' = [bs EXCEPT ![s] = Finish(bs[s], "already_sent")]
       ELSE IF ok
       THEN /\ bc' = [bc EXCEPT !.total_bots = Len(get_target_bots(bc))]
            /\ bs' = [bs EXCEPT ![s].targets = get_target_bots(bc),
                                ![s].i = 1,
                                ![s].pc = IF get_target_bots(bc) = <<>> THEN "final" ELSE "bot"]
       ELSE /\ bc' = bc
            /\ bs' = [bs EXCEPT ![s] = Finish(bs[s], "error")]
    /\ UNCHANGED <<userActive, language, cn, deliveries, attempts, sends, preview, notBc>>

\* lines 109-130: the delivery row of the bot is added to the session, a
\* counter is incremented, the loop goes on to the next bot
BotDone(rec, delivered, n) ==
    [rec EXCEPT !.pending = Append(@, [bot |-> rec.targets[rec.i], delivered |-> delivered]),
                !.successful_sends = IF delivered THEN @ + 1 ELSE @,
                !.failed_sends = IF delivered THEN @ ELSE @ + 1,
                !.chats = {},
                !.footer = "none",
                !.success_count = n,
                !.i = @ + 1,
                !.pc = IF rec.i + 1 > Len(rec.targets) THEN "final" ELSE "bot"]

\* the mutation of Footer: the footer is appended whatever the tier
FooterForAll(b) ==
    CASE language[OwnerOf(b)] = "uz" -> "footer_uz"
      [] language[OwnerOf(b)] = "ru" -> "footer_ru"
      [] OTHER -> "footer_en"

\* _send_to_bot_users, lines 166-174: what is appended to the broadcast
\* text for the chats of bot b
Footer(b) ==
    IF subType[OwnerOf(b)] = "FREE"
    THEN CASE language[OwnerOf(b)] = "uz" -> "footer_uz"
           [] language[OwnerOf(b)] = "ru" -> "footer_ru"
           [] OTHER -> "footer_en"
    ELSE "none"

\* lines 97-107 and 120-130, _send_to_bot_users lines 150-174: the next bot;
\* an exception of the loop body is recorded as a failed delivery; without
\* token the bot counts as failed, without conversation as delivered
SendBot(s, raised) ==
    /\ bs[s].pc = "bot"
    /\ LET b == bs[s].targets[bs[s].i] IN
        bs' = [bs EXCEPT ![s] =
                 IF raised \/ botToken[b] = "none" THEN BotDone(bs[s], FALSE, 0)
                 ELSE IF BotChats(b) = {} THEN BotDone(bs[s], TRUE, 0)
                 ELSE [bs[s] EXCEPT !.pc = "chats", !.chats = BotChats(b), !.success_count = 0,
                                    !.footer = Footer(b)]]
    /\ UNCHANGED <<userActive, language, cn, bc, deliveries, attempts, sends, preview, notBc>>

\* _send_to_bot_users, lines 177-196: send_broadcast_message to the next
\* chat; sent is what the gateway answers (an exception is logged and counts
\* as not sent); after the last chat the result is success_count > 0
SendChat(s, sent) ==
    /\ bs[s].pc = "chats"
    /\ LET b == bs[s].targets[bs[s].i]
           c == CHOOSE x \in bs[s].chats : \A y \in bs[s].chats : x <= y
           n == bs[s].success_count + (IF sent THEN 1 ELSE 0)
       IN /\ attempts' = [attempts EXCEPT ![<<b, c>>] = @ + 1]
          /\ bs' = [bs EXCEPT ![s] = IF bs[s].chats = {c} THEN BotDone(bs[s], n > 0, n)
                                      ELSE [bs[s] EXCEPT !.chats = @ \ {c}, !.success_count = n]]
    /\ UNCHANGED <<userActive, language, cn, bc, deliveries, sends, preview, notBc>>

\* the mutation of SendFinal: the broadcast is marked sent from inside the
\* loop over the bots
SendFinalEarly(s, ok) ==
    /\ bs[s].pc \in {"final", "bot"}
    /\ IF ok
       THEN /\ bc' = [bc EXCEPT !.is_sent = TRUE, !.sent_at = now,
                                !.successful_sends = bs[s].successful_sends,
                                !.failed_sends = bs[s].failed_sends]
            /\ deliveries' = deliveries \o bs[s].pending
            /\ bs' = [bs EXCEPT ![s] = Finish(bs[s], "sent")]
       ELSE /\ UNCHANGED <<bc, deliveries>>
            /\ bs' = [bs EXCEPT ![s] = Finish(bs[s], "error")]
    /\ UNCHANGED <<userActive, language, cn, attempts, sends, preview, notBc>>

\* lines 132-145: is_sent, sent_at and the counters are set and committed
\* together with the delivery rows; when the commit fails everything is
\* rolled back and the error is returned
SendFinal(s, ok) ==
    /\ bs[s].pc = "final"
    /\ IF ok
       THEN /\ bc' = [bc EXCEPT !.is_sent = TRUE, !.sent_at = now,
                                !.successful_sends = bs[s].successful_sends,
                                !.failed_sends = bs[s].failed_sends]
            /\ deliveries' = deliveries \o bs[s].pending
            /\ bs' = [bs EXCEPT ![s] = Finish(bs[s], "sent")]
       ELSE /\ UNCHANGED <<bc, deliveries>>
            /\ bs' = [bs EXCEPT ![s] = Finish(bs[s], "error")]
    /\ UNCHANGED <<userActive, language, cn, attempts, sends, preview, notBc>>

\* the mutation of CancelRead: the is_sent test of line 305 is left out
CancelReadUnchecked ==
    /\ bc.exists
    /\ cn.pc = "idle"
    /\ cn' = [pc |-> "write", res |-> "none"]
    /\ UNCHANGED <<userActive, language, bc, deliveries, attempts, bs, sends, preview, notBc>>

\* cancel_scheduled_broadcast, lines 296-306: the row is read; the request
\* is refused for a sent broadcast
CancelRead ==
    /\ bc.exists
    /\ cn.pc = "idle"
    /\ cn' = IF bc.is_sent THEN [pc |-> "idle", res |-> "rejected"]
             ELSE [pc |-> "write", res |-> "none"]
    /\ UNCHANGED <<userActive, language, bc, deliveries, attempts, bs, sends, preview, notBc>>

\* lines 308-317: the schedule is taken off the row and committed, or the
\* commit fails and is rolled back
CancelCommit(ok) ==
    /\ cn.pc = "write"
    /\ bc' = IF ok THEN [bc EXCEPT !.is_scheduled = FALSE, !.scheduled_at = -1] ELSE bc
    /\ cn' = [pc |-> "idle", res |-> IF ok THEN "cancelled" ELSE "error"]
    /\ UNCHANGED <<userActive, language, deliveries, attempts, bs, sends, preview, notBc>>

CancelScheduled ==
    \/ CancelRead
    \/ \E ok \in BOOLEAN : CancelCommit(ok)

SenderStep(s) ==
    \/ RouteSend(s)
    \/ SchedQuery(s)
    \/ \E ok \in BOOLEAN : SendCheck(s, ok)
    \/ \E raised \in BOOLEAN : SendBot(s, raised)
    \/ \E sent \in BOOLEAN : SendChat(s, sent)
    \/ \E ok \in BOOLEAN : SendFinal(s, ok)

\* both bots were set up through setup_telegram and their contexts poll
RtBothStart ==
    /\ botStatus = [b \in Bots |-> "ACTIVE"]
    /\ botToken = [b \in Bots |-> "valid"]
    /\ active_bots = [b \in Bots |-> b]
    /\ bot_threads = [b \in Bots |-> b]
    /\ ctx = [c \in CtxIds |-> IF c \in Bots THEN [bot |-> c, phase |-> "polling", svc |-> "web"] ELSE NoCtx]
    /\ th = [t \in Threads |-> IdleThread]
    /\ monPc = "sleep"
    /\ monTodo = {}
    /\ calls = 2

\* participants 7 and 8 have written to bot 1, the one in a private chat, the
\* other in the group chat; nobody has written to bot 2
ConvTwoStart ==
    /\ convs = <<[bot |-> 1, user |-> 7, chat_id |-> 7, last_message_at |-> 0],
                 [bot |-> 1, user |-> 8, chat_id |-> GroupChat, last_message_at |-> 0]>>
    /\ clock = 0
    /\ hd = [h \in Handlers |-> IF h = "h1" THEN [IdleHandler EXCEPT !.bot = 1] ELSE IdleHandler]
    /\ msgs = 2

\* both tenants are on the free tier, the trial of tenant 2 ends now; the
\* notification templates are loaded
NtTrialEnds ==
    /\ now = StartNow
    /\ subType = [u \in Tenants |-> "FREE"]
    /\ endDate = [u \in Tenants |-> IF u = 2 THEN StartNow ELSE -1]
    /\ subActive = [u \in Tenants |-> TRUE]
    /\ botIsActive = [b \in Bots |-> TRUE]
    /\ templates = 1..Len(Kinds)
    /\ notes = <<>>
    /\ sw = [x \in Sweepers |-> IdleSweep]
    /\ sweeps = 0

\* create_broadcast, broadcast_service.py:18-38 (routes.py:594-602 passes
\* target_subscription = FREE): the row of a new broadcast
NewBroadcast(basic, premium, scheduled) ==
    [NoBroadcast EXCEPT !.exists = TRUE, !.allow_basic = basic, !.allow_premium = premium,
                        !.is_scheduled = scheduled,
                        !.scheduled_at = IF scheduled THEN StartNow ELSE -1]

\* a scheduled broadcast to the free tier was created and is due
BcStart ==
    /\ userActive = [u \in Tenants |-> TRUE]
    /\ language = [u \in Tenants |-> "en"]
    /\ cn = NoCancel
    /\ bc = NewBroadcast(FALSE, FALSE, TRUE)
    /\ deliveries = <<>>
    /\ attempts = [p \in Bots \X Participants |-> 0]
    /\ bs = [s \in Senders |-> IdleSender]
    /\ sends = 0
    /\ preview = NoPreview

BcastInit == RtBothStart /\ ConvTwoStart /\ NtTrialEnds /\ BcStart /\ DpInit

\* the admin's send request, the scheduled sweep and the notification sweep
\* run side by side
BcastNext ==
    \/ \E s \in Senders : SenderStep(s)
    \/ CancelScheduled
    \/ SweepStep("s1")

BcastSpec == BcastInit /\ [][BcastNext]_vars

\* the inputs of get_target_bots: the tenants' tiers and flags, the bots'
\* flags and tokens, the flags of the broadcast
TargetInit ==
    /\ \/ RtStart
       \/ RtBothStart
    /\ ConvStart
    /\ now = StartNow
    /\ subType \in [Tenants -> Tiers]
    /\ endDate = [u \in Tenants |-> -1]
    /\ subActive \in [Tenants -> BOOLEAN]
    /\ botIsActive \in [Bots -> BOOLEAN]
    /\ templates = {}
    /\ notes = <<>>
    /\ sw = [x \in Sweepers |-> IdleSweep]
    /\ sweeps = 0
    /\ userActive \in [Tenants -> BOOLEAN]
    /\ language = [u \in Tenants |-> "en"]
    /\ cn = NoCancel
    /\ \E basic, premium \in BOOLEAN : bc = NewBroadcast(basic, premium, FALSE)
    /\ deliveries = <<>>
    /\ attempts = [p \in Bots \X Participants |-> 0]
    /\ bs = [s \in Senders |-> IdleSender]
    /\ sends = 0
    /\ preview = NoPreview
    /\ DpInit

\* the tenants are on any tier and use any language; the admin sends a new
\* broadcast
FooterInit ==
    /\ RtBothStart
    /\ ConvTwoStart
    /\ now = StartNow
    /\ subType \in [Tenants -> Tiers]
    /\ endDate = [u \in Tenants |-> -1]
    /\ subActive = [u \in Tenants |-> TRUE]
    /\ botIsActive = [b \in Bots |-> TRUE]
    /\ templates = {}
    /\ notes = <<>>
    /\ sw = [x \in Sweepers |-> IdleSweep]
    /\ sweeps = 0
    /\ userActive = [u \in Tenants |-> TRUE]
    /\ language \in [Tenants -> Langs]
    /\ cn = NoCancel
    /\ \E basic, premium \in BOOLEAN : bc = NewBroadcast(basic, premium, FALSE)
    /\ deliveries = <<>>
    /\ attempts = [p \in Bots \X Participants |-> 0]
    /\ bs = [s \in Senders |-> IdleSender]
    /\ sends = 0
    /\ preview = NoPreview
    /\ DpInit

FooterNext ==
    \/ RouteSend("m")
    \/ \E ok \in BOOLEAN : SendCheck("m", ok)
    \/ \E raised \in BOOLEAN : SendBot("m", raised)
    \/ \E sent \in BOOLEAN : SendChat("m", sent)
    \/ \E ok \in BOOLEAN : SendFinal("m", ok)

FooterSpec == FooterInit /\ [][FooterNext]_vars

\* a broadcast scheduled for now or for the next hour was created; the
\* scheduled sweep runs, the admin may cancel, time passes
SchedInit ==
    /\ RtBothStart
    /\ ConvTwoStart
    /\ NtTrialEnds
    /\ userActive = [u \in Tenants |-> TRUE]
    /\ language = [u \in Tenants |-> "en"]
    /\ cn = NoCancel
    /\ \E t \in {StartNow, StartNow + 1} :
          bc = [NewBroadcast(FALSE, FALSE, TRUE) EXCEPT !.scheduled_at = t]
    /\ deliveries = <<>>
    /\ attempts = [p \in Bots \X Participants |-> 0]
    /\ bs = [s \in Senders |-> IdleSender]
    /\ sends = 0
    /\ preview = NoPreview
    /\ DpInit

SchedNext ==
    \/ SchedQuery("c")
    \/ \E ok \in BOOLEAN : SendCheck("c", ok)
    \/ \E raised \in BOOLEAN : SendBot("c", raised)
    \/ \E sent \in BOOLEAN : SendChat("c", sent)
    \/ \E ok \in BOOLEAN : SendFinal("c", ok)
    \/ CancelScheduled
    \/ NowTick

SchedSpec == SchedInit /\ [][SchedNext]_vars

TargetNext == PreviewBroadcast

TargetSpec == TargetInit /\ [][TargetNext]_vars

\* C14: a broadcast that is marked sent has successful_sends + failed_sends
\* = total_bots.
C14_CountersAddUp ==
    bc.is_sent => bc.successful_sends + bc.failed_sends = bc.total_bots

\* C15: a send that finds the broadcast already sent returns "already sent"
\* and changes nothing: neither the broadcast row nor the delivery rows, and
\* no message goes to the gateway.
C15_AlreadySentIsNoop ==
    [][\A s \in Senders :
        (bc.is_sent /\ bs'[s] # bs[s] /\ (bs[s].pc = "check" \/ (s = "m" /\ bs[s].pc \in {"idle", "done"})))
            => /\ bs'[s].pc = "done"
               /\ bs'[s].res = "already_sent"
               /\ bs'[s].pending = <<>>
               /\ bc' = bc
               /\ deliveries' = deliveries
               /\ attempts' = attempts]_vars

\* the scheduled sweep's send_broadcast found the broadcast sent in the
\* meantime
C15_Witness ==
    bc.is_sent /\ bs["c"].pc = "done" /\ bs["c"].res = "already_sent"

\* C16: every chat gets at most one delivery attempt for the broadcast.
C16_OneAttemptPerChat ==
    \A p \in Bots \X Participants : attempts[p] <= 1

\* every bot the send resolved as target has its delivery row in the session
AllAttempted(rec) ==
    /\ rec.i = Len(rec.targets) + 1
    /\ \A k \in 1..Len(rec.targets) :
          Cardinality({j \in 1..Len(rec.pending) : rec.pending[j].bot = rec.targets[k]}) = 1

\* C17: the broadcast is marked sent only by a send that has attempted every
\* one of its target bots, together with the timestamp and the final counters;
\* a send that aborts does not mark it.
C17_SentOnlyAfterAllAttempted ==
    [][/\ \A s \in Senders :
            (bs[s].pc # "done" /\ bs'[s].pc = "done" /\ bs'[s].res = "sent")
                => /\ AllAttempted(bs[s])
                   /\ bc'.is_sent
                   /\ bc'.sent_at = now
                   /\ bc'.successful_sends + bc'.failed_sends = Len(bs[s].targets)
       /\ \A s \in Senders :
            (bs[s].pc # "done" /\ bs'[s].pc = "done" /\ bs'[s].res = "error") => bc' = bc
       /\ bc'.is_sent # bc.is_sent
            => \E s \in Senders : bs[s].pc # "done" /\ bs'[s].pc = "done" /\ bs'[s].res = "sent"]_vars

\* a send over two target bots has completed
C17_Witness ==
    \E s \in Senders : bs[s].res = "sent" /\ Len(bs[s].targets) = 2 /\ bc.is_sent /\ Len(deliveries) >= 2

\* C18: once the broadcast is sent, every bot has at most one delivery row of
\* the broadcast, and every chat of a bot with a delivery row was attempted.
C18_OneRecordPerBot ==
    bc.is_sent =>
        \A b \in Bots :
            /\ Cardinality({i \in 1..Len(deliveries) : deliveries[i].bot = b}) <= 1
            /\ (\E i \in 1..Len(deliveries) : deliveries[i].bot = b /\ deliveries[i].delivered)
                  => \A c \in BotChats(b) : attempts[<<b, c>>] >= 1

\* C19: the delivery row of a bot says delivered exactly when at least one
\* chat of the bot was reached.
C19_DeliveredIffReached ==
    [][\A s \in Senders :
        (bs[s].pc \in {"bot", "chats"} /\ Len(bs'[s].pending) = Len(bs[s].pending) + 1)
            => (bs'[s].pending[Len(bs'[s].pending)].delivered <=> bs'[s].success_count > 0)]_vars

\* the bots the eligibility rule names: active, with a token, of an active
\* tenant with an active subscription of the base tier or an allowed tier
EligibleBots ==
    {b \in Bots :
        /\ botIsActive[b]
        /\ botToken[b] # "none"
        /\ userActive[OwnerOf(b)]
        /\ subActive[OwnerOf(b)]
        /\ \/ subType[OwnerOf(b)] = bc.target_subscription
           \/ subType[OwnerOf(b)] = "BASIC" /\ bc.allow_basic
           \/ subType[OwnerOf(b)] = "PREMIUM" /\ bc.allow_premium}

\* C20: get_target_bots returns exactly the eligible bots, each once; with
\* target FREE and no flag set, no bot of a BASIC or PREMIUM tenant.
C20_TargetsAreEligibleBots ==
    preview.shown =>
        /\ {preview.bots[k] : k \in 1..Len(preview.bots)} = EligibleBots
        /\ Len(preview.bots) = Cardinality(EligibleBots)
        /\ (bc.target_subscription = "FREE" /\ ~bc.allow_basic /\ ~bc.allow_premium)
              => \A k \in 1..Len(preview.bots) : subType[OwnerOf(preview.bots[k])] \notin {"BASIC", "PREMIUM"}

\* a preview that shows a bot of a BASIC tenant, the flag being set, and
\* leaves out a bot of a tenant on another tier
C20_Witness ==
    /\ preview.shown
    /\ bc.allow_basic
    /\ \E k \in 1..Len(preview.bots) : subType[OwnerOf(preview.bots[k])] = "BASIC"
    /\ Len(preview.bots) < Cardinality({b \in Bots : botIsActive[b] /\ botToken[b] # "none"})

\* C21: once the broadcast is marked sent no step changes its row: is_sent
\* stays true, sent_at and the counters are not written again.
C21_SentBroadcastIsFrozen ==
    [][bc.is_sent => bc' = bc]_vars

\* a message text, as far as language detection looks at it: how many of the
\* Uzbek words and of the Russian words occur in it and how many of its
\* characters are Cyrillic (ai_service.py:214-223); the Russian words are
\* written in Cyrillic
Messages ==
    {m \in [uz : 0..MaxMarkers, ru : 0..MaxMarkers, cyr : 0..MaxMarkers] : m.ru > 0 => m.cyr > 0}

\* _detect_language_instruction, ai_service.py:225-234
detect_language_instruction(m) ==
    IF m.uz > 0 \/ m.cyr > 0
    THEN IF m.uz > m.ru THEN "UZBEK" ELSE "RUSSIAN"
    ELSE IF m.ru > 0 THEN "RUSSIAN" ELSE "MIRROR"

\* _get_language_instruction, ai_service.py:236-258
get_language_instruction(l) ==
    CASE l = "uz" -> "ONLY_UZBEK"
      [] l = "ru" -> "ONLY_RUSSIAN"
      [] l = "en" -> "ONLY_ENGLISH"
      [] OTHER -> "MIRROR"

\* get_response, ai_service.py:47-51
language_instruction(user_language, m) ==
    IF user_language # "auto" THEN get_language_instruction(user_language)
    ELSE detect_language_instruction(m)

\* the language an instruction asks the model to answer in
LanguageOf(instr) ==
    CASE instr \in {"UZBEK", "ONLY_UZBEK"} -> "uz"
      [] instr \in {"RUSSIAN", "ONLY_RUSSIAN"} -> "ru"
      [] instr = "ONLY_ENGLISH" -> "en"
      [] OTHER -> "mirror"

\* _handle_message line 264 and get_response lines 47-51 for a message m of
\* participant u: the language is looked up, then turned into the
\* instruction of the system prompt
ResolveLanguage(u, m) ==
    /\ lr' = [kind |-> "message", user |-> u, uz |-> m.uz, ru |-> m.ru, cyr |-> m.cyr,
              lang |-> get_user_language(u),
              instr |-> language_instruction(get_user_language(u), m)]
    /\ user_languages' = CacheAfterGet(u)
    /\ UNCHANGED <<aiAvailable, langDb, botTotal, convVars, notDp>>

\* get_response called with its default user_language='auto', as the test
\* route writes the call (routes.py:516)
DetectLanguage(m) ==
    /\ lr' = [kind |-> "auto", user |-> 0, uz |-> m.uz, ru |-> m.ru, cyr |-> m.cyr,
              lang |-> "auto", instr |-> language_instruction("auto", m)]
    /\ UNCHANGED <<aiAvailable, langDb, user_languages, botTotal, convVars, notDp>>

\* _handle_callback, lines 373-383, with _set_user_language, lines 692-729:
\* the choice is committed or rolled back; _set_user_language swallows the
\* failure, so line 381 fills the cache in both cases
LanguageCallback(u, l, ok) ==
    /\ langDb' = IF ok THEN [langDb EXCEPT ![u] = l] ELSE langDb
    /\ user_languages' = [user_languages EXCEPT ![u] = l]
    /\ UNCHANGED <<aiAvailable, lr, botTotal, convVars, notDp>>

LangNext ==
    \/ \E u \in Participants, m \in Messages : ResolveLanguage(u, m)
    \/ \E m \in Messages : DetectLanguage(m)
    \/ \E u \in Participants, l \in Langs, ok \in BOOLEAN : LanguageCallback(u, l, ok)

LangSpec == Init /\ [][LangNext]_vars

\* the preference stored for a participant: cached, else in the database
StoredPreference(u) ==
    IF user_languages[u] # "none" THEN user_languages[u] ELSE langDb[u]

\* the characters a markup text is made of: the three characters
\* sanitize_html treats specially, white space, the letter of an allowed
\* tag name (b) and another letter
Chars == {"<", ">", "/", " ", "b", "x"}

\* the pieces the markup texts are put together from: the single
\* characters and one disallowed tag
Pieces == {<<c>> : c \in Chars} \cup {<<"<", "x", ">">>}

RECURSIVE Flatten(_)
Flatten(ps) == IF ps = <<>> THEN <<>> ELSE Head(ps) \o Flatten(Tail(ps))

Markups == UNION {{Flatten(ps) : ps \in [1..n -> Pieces]} : n \in 0..MaxLen}

\* line 327, allowed_tags, over these letters
allowed_tags == {<<"b">>}

\* the position of the first ">" after position i, 0 if there is none
FirstClose(str, i) ==
    IF \E j \in (i+1)..Len(str) : str[j] = ">"
    THEN CHOOSE j \in (i+1)..Len(str) : str[j] = ">" /\ \A k \in (i+1)..(j-1) : str[k] # ">"
    ELSE 0

\* line 331, re.findall(r'<[^>]+>', html_content) from position i on: the
\* matches from left to right, none overlapping another
RECURSIVE FindAll(_, _)
FindAll(str, i) ==
    IF i > Len(str) THEN <<>>
    ELSE IF str[i] = "<" /\ FirstClose(str, i) > i + 1
         THEN <<SubSeq(str, i, FirstClose(str, i))>> \o FindAll(str, FirstClose(str, i) + 1)
         ELSE FindAll(str, i + 1)

IsBracket(c) == c \in {"<", ">", "/"}

\* str.split()[0]: the first run of characters that are not white space;
\* <<>> stands for the IndexError of an empty split
RECURSIVE FirstWord(_)
FirstWord(str) ==
    IF str = <<>> THEN <<>>
    ELSE IF Head(str) = " " THEN FirstWord(Tail(str))
    ELSE IF Len(str) = 1 \/ str[2] = " " THEN <<Head(str)>>
    ELSE <<Head(str)>> \o FirstWord(Tail(str))

\* line 332: the tag without "<", ">" and "/", its first word
TagName(tag) == FirstWord(SelectSeq(tag, LAMBDA c : ~IsBracket(c)))

\* str.replace(tag, ''): every occurrence of tag, from left to right, is
\* taken out
RECURSIVE Remove(_, _)
Remove(str, tag) ==
    IF Len(str) < Len(tag) THEN str
    ELSE IF SubSeq(str, 1, Len(tag)) = tag THEN Remove(SubSeq(str, Len(tag) + 1, Len(str)), tag)
    ELSE <<Head(str)>> \o Remove(Tail(str), tag)

\* lines 331-334: the loop over the tags found in the input
RECURSIVE CleanLoop(_, _)
CleanLoop(clean_html, tags) ==
    IF tags = <<>> THEN [raised |-> FALSE, out |-> clean_html]
    ELSE IF TagName(Head(tags)) = <<>> THEN [raised |-> TRUE, out |-> <<>>]
    ELSE IF TagName(Head(tags)) \notin allowed_tags
         THEN CleanLoop(Remove(clean_html, Head(tags)), Tail(tags))
         ELSE CleanLoop(clean_html, Tail(tags))

\* sanitize_html, broadcast_service.py:320-335
sanitize_html(html_content) ==
    IF html_content = <<>> THEN [raised |-> FALSE, out |-> html_content]
    ELSE CleanLoop(html_content, FindAll(html_content, 1))

\* the result of a call of sanitize_html as the state keeps it
Sanitized(str) ==
    [done |-> TRUE, raised |-> sanitize_html(str).raised, out |-> sanitize_html(str).out]

\* routes.py:590-591: the message_html the admin submitted is sanitized
SubmitMarkup ==
    /\ ~cleaned.done
    /\ cleaned' = Sanitized(markup)
    /\ UNCHANGED <<markup, rtVars, convVars, ntVars, bcVars, dpVars>>

\* the sanitized text is submitted once more (the broadcast is edited and
\* saved again)
SanitizeAgain ==
    /\ cleaned.done
    /\ ~cleaned.raised
    /\ markup' = cleaned.out
    /\ cleaned' = Sanitized(cleaned.out)
    /\ UNCHANGED <<rtVars, convVars, ntVars, bcVars, dpVars>>

\* any markup may be submitted
SanitizeInit ==
    /\ RtInit /\ ConvInit /\ NtInit /\ BcInit
    /\ aiAvailable = TRUE
    /\ langDb = [u \in Participants |-> "none"]
    /\ user_languages = [u \in Participants |-> "none"]
    /\ lr = NoResolution
    /\ botTotal = [b \in Bots |-> 0]
    /\ markup \in Markups
    /\ cleaned = NotSanitized

SanitizeNext ==
    \/ SubmitMarkup
    \/ SanitizeAgain

SanitizeSpec == SanitizeInit /\ [][SanitizeNext]_vars

\* the tags of a text that are not on the allow-list
DisallowedTags(str) ==
    {k \in 1..Len(FindAll(str, 1)) : TagName(FindAll(str, 1)[k]) \notin allowed_tags}

\* C22: get_response always hands a string to its caller -- the model's
\* answer or one of the three fixed fallback texts -- and never an exception;
\* without API key it is the "unavailable" text
C22_FallbackNeverThrows ==
    \A h \in Handlers :
        hd[h].pc = "reply" =>
            /\ hd[h].out \in {"ai", "ai_media", "apology", "unavailable", "difficulties"}
            /\ (~aiAvailable => hd[h].out = "unavailable")

\* the backend raised and the caller holds the "technical difficulties" text
C22_Witness ==
    \E h \in Handlers : hd[h].pc = "reply" /\ hd[h].out = "difficulties"

\* C23: every message taken up by the handler leads to a reply attempt: the
\* response was sent (the statistics step is reached) or the error text is
\* being sent
C23_EveryMessageAnswered ==
    (hd["h1"].pc = "query") ~> (hd["h1"].pc \in {"radmin", "err"})

\* C24: a message of a participant with a stored preference is answered in
\* that language; without one, in the language that content detection finds
\* in the text
C24_DetectionWithoutPreference ==
    [][(lr' # lr /\ lr'.kind = "message") =>
          LET u == lr'.user
              m == [uz |-> lr'.uz, ru |-> lr'.ru, cyr |-> lr'.cyr]
          IN  IF StoredPreference(u) # "none"
              THEN LanguageOf(lr'.instr) = StoredPreference(u)
              ELSE LanguageOf(lr'.instr) = LanguageOf(detect_language_instruction(m))]_vars

\* C25: detection answers with the language whose words are strictly more
\* numerous; equal non-zero word counts, and a text without any marker or
\* Cyrillic character, give the mirror instruction
C25_HighestCountWinsTiesMirror ==
    lr.kind = "auto" =>
        /\ (lr.uz > lr.ru => lr.instr = "UZBEK")
        /\ (lr.ru > lr.uz => lr.instr = "RUSSIAN")
        /\ (lr.uz = lr.ru /\ lr.uz > 0 => lr.instr = "MIRROR")
        /\ (lr.uz = 0 /\ lr.ru = 0 /\ lr.cyr = 0 => lr.instr = "MIRROR")

\* C26: no AI answer is produced for a participant who, when the message
\* came in, had no Conversation with the bot and has no stored language
\* preference
C26_NoAiBeforeLanguageChoice ==
    \A h \in Handlers :
        (hd[h].pc = "reply" /\ hd[h].out = "ai") =>
            ~(hd[h].row = 0 /\ StoredPreference(hd[h].user) = "none")

\* C27: every committed statistics update raises the bot's persisted message
\* count by one over the value persisted just before it, so no handled
\* message is missing from the count
C27_NoLostCounterUpdate ==
    [][\A h \in Handlers :
          (hd[h].pc = "scommit" /\ hd'[h].pc = "idle") =>
              botTotal'[hd[h].bot] = botTotal[hd[h].bot] + 1]_vars

\* C28: while a broadcast is delivered to the chats of a bot, the text sent
\* carries the attribution footer in the tenant's language if the tenant is
\* on the free tier and no footer if the tenant is on a paid tier
C28_FooterOnlyForFreeTier ==
    \A s \in Senders :
        bs[s].pc = "chats" =>
            LET u == OwnerOf(bs[s].targets[bs[s].i]) IN
                /\ (subType[u] = "FREE" =>
                        bs[s].footer = (CASE language[u] = "uz" -> "footer_uz"
                                          [] language[u] = "ru" -> "footer_ru"
                                          [] language[u] = "en" -> "footer_en"))
                /\ (subType[u] # "FREE" => bs[s].footer = "none")

\* the broadcast goes to the chats of a bot of a paid-tier tenant
C28_Witness ==
    \E s \in Senders :
        /\ bs[s].pc = "chats"
        /\ subType[OwnerOf(bs[s].targets[bs[s].i])] = "PREMIUM"
        /\ bs[s].footer = "none"

\* C29: sanitize_html returns for every markup, without raising, a text with
\* no tag outside the allow-list, and returns a markup that has no such tag
\* as it is
C29_SanitizeStripsDisallowed ==
    cleaned.done =>
        /\ ~cleaned.raised
        /\ DisallowedTags(cleaned.out) = {}
        /\ (DisallowedTags(markup) = {} => cleaned.out = markup)

\* C30: a sweep run deactivates the bots (and the subscription) of a tenant
\* for an expiry only if this run recorded the notification of that expiry;
\* a run whose recording failed deactivates nothing
C30_DeactivationOnlyWithRecord ==
    [][\A x \in Sweepers :
          (sw[x].pc = "after" /\ sw[x].kind \in {2, 4} /\ sw'[x].pc = "loop") =>
              \E i \in 1..Len(notes) :
                  /\ notes[i].user = sw[x].user
                  /\ notes[i].kind = sw[x].kind
                  /\ notes[i].created_at = sw[x].created_at]_vars

\* C31: once the reply is sent, the statistics update cannot unwind the
\* handler: whether its commit succeeds or fails, the handler goes on to its
\* end and never to the sending of the error text
C31_StatsFailureIsSwallowed ==
    [][\A h \in Handlers :
          /\ (hd[h].pc = "stats" => hd'[h].pc \in {"stats", "scommit"})
          /\ (hd[h].pc = "scommit" => hd'[h].pc \in {"scommit", "rollback", "idle"})
          /\ (hd[h].pc = "rollback" => hd'[h].pc \in {"rollback", "idle"})]_vars

\* the commit of the statistics failed after a reply was sent
C31_Witness ==
    \E h \in Handlers : hd[h].pc = "rollback" /\ hd[h].out # "none"

\* C32: whatever happens to the send to the admin chat, the send to the
\* notification channel is attempted next, and whatever happens to that one,
\* the handler goes on to the AI call (or, after the reply, to the
\* statistics); a notification never leads to the error reply and never
\* touches the answer the handler holds
C32_NotificationFailuresIsolated ==
    [][\A h \in Handlers :
          /\ (hd[h].pc = "nadmin" => hd'[h].pc \in {"nadmin", "nchan"})
          /\ (hd[h].pc = "nchan" => hd'[h].pc \in {"nchan", "ai"})
          /\ (hd[h].pc = "radmin" => hd'[h].pc \in {"radmin", "rchan"})
          /\ (hd[h].pc = "rchan" => hd'[h].pc \in {"rchan", "stats"})
          /\ (hd[h].pc \in {"nadmin", "nchan", "radmin", "rchan"} => hd'[h].out = hd[h].out)]_vars

\* the handler has sent the AI answer and is past both notifications of it
C32_Witness ==
    \E h \in Handlers : hd[h].pc = "stats" /\ hd[h].out = "ai"

\* C33: a watchdog cycle leaves a bot alone that has a running connection
\* started by the web process: handling that bot creates no context
C33_WatchdogSkipsRunningBots ==
    [][\A b \in Bots :
          (/\ b \in monTodo
           /\ b \notin monTodo'
           /\ \E c \in RunningOf(b) : ctx[c].svc = "web" /\ active_bots[b] = c) =>
              ctx' = ctx]_vars

\* C34: the watchdog starts no context for a bot whose is_active flag the
\* notification sweep has cleared
C34_DeactivatedBotsStayDown ==
    [][\A b \in Bots :
          (~botIsActive[b] /\ b \in monTodo /\ b \notin monTodo') => ctx' = ctx]_vars

\* the chat identifiers stored in the Conversation rows of a bot
StoredChats(b) == {convs[i].chat_id : i \in {j \in 1..Len(convs) : convs[j].bot = b}}

\* C35: the recipients a send works through for a target bot are exactly
\* the chat identifiers stored in the bot's Conversation rows
C35_RecipientsAreStoredChats ==
    [][\A s \in Senders :
          (bs[s].pc = "bot" /\ bs'[s].pc = "chats") =>
              bs'[s].chats = StoredChats(bs[s].targets[bs[s].i])]_vars

\* C36: what the handler has sent as reply is the response text, with the
\* image attached when the generator returned one; it is never the printed
\* form of the generator's result
C36_MediaSentWithText ==
    \A h \in Handlers :
        hd[h].pc \in {"radmin", "rchan", "stats", "scommit", "rollback"} =>
            hd[h].out \in {"ai", "ai_media", "apology", "unavailable", "difficulties"}

\* C37: a language held in the cache for a participant is the participant's
\* persisted preference
C37_CacheMatchesPersisted ==
    \A u \in Participants :
        user_languages[u] # "none" => user_languages[u] = langDb[u]

\* C38: a run of the scheduled sweep starts sending only a broadcast that
\* is scheduled, unsent and due; a broadcast whose schedule was cancelled
\* stays unscheduled, so no later run picks it up; and a cancel request that
\* finds the broadcast sent is rejected and changes nothing
C38_SweepSendsOnlyDueScheduled ==
    [][/\ ((bs["c"].pc \in {"idle", "done"} /\ bs'["c"].pc = "check") =>
               (bc.is_scheduled /\ ~bc.is_sent /\ bc.scheduled_at <= now))
       /\ (~bc.is_scheduled => ~bc'.is_scheduled)
       /\ ((bc.is_sent /\ cn.pc = "idle" /\ cn' # cn) =>
               (cn' = [pc |-> "idle", res |-> "rejected"] /\ bc' = bc))]_vars

\* the broadcast was cancelled before it was sent and a run of the sweep
\* has found nothing to send
C38_Witness ==
    /\ cn.res = "cancelled"
    /\ ~bc.is_scheduled
    /\ ~bc.is_sent
    /\ bs["c"].pc = "done"
    /\ bs["c"].res = "nothing_ready"

\* C39: sanitizing a sanitized text gives the same text again
C39_SanitizeIdempotent ==
    [][(cleaned.done /\ ~cleaned.raised /\ markup' = cleaned.out /\ cleaned'.done) =>
          cleaned' = cleaned]_vars

====
